---- MODULE Spec2Model ----
(***************************************************************************)
(* Ball tracker: detect_ball (ball_detector.py), PerspectiveMapper         *)
(* (perspective_mapper.py) and the frame loop of main (main_tracker.py).   *)
(*                                                                         *)
(* A frame is represented by what detect_ball extracts from it: the        *)
(* cleaned mask (an identity) and the list of external contours, each      *)
(* contour by the measurements the code takes of it (contourArea,          *)
(* minEnclosingCircle radius, spatial moments).                            *)
(* An absent value (Python None) is the empty tuple.                       *)
(***************************************************************************)
EXTENDS Integers, Sequences, FiniteSets, TLC

\* ------------------------------------------------------------------ bounds
MaxBuffer == 3        \* largest --buffer argument explored
MaxFrames == 3        \* longest video stream explored
MaxContours == 3      \* most contours in one frame (detector specification)
MaxHeight == 640      \* rows of the resized frame (mapper specification)

\* --------------------------------------------------------------- constants
FRAME_WIDTH == 600
WARPED_WIDTH == 400
WARPED_HEIGHT == 900
MIN_AREA == 100       \* area < 100 is noise
MAX_AREA == 8000      \* area < 8000 required
CircNum == 7          \* circularity threshold 0.7 = CircNum / CircDen
CircDen == 10
PiNum == 355          \* math.pi as the rational 355/113: the comparison
PiDen == 113          \* agrees with the float one on all integer inputs used

None == <<>>

VARIABLES
    \* main()
    pc, buffer, streamLen, nRead, mapper, stabilizer, errorReported, released,
    frame_stabilized, center, center_warped, pts_original, pts_warped,
    lines_original, lines_warped, mask, shown, nStab, nWarp, nDetect,
    lastExit, history,
    \* one call of detect_ball
    det_cnts, det_mask, det_ret, det_done,
    \* one call of transform_point
    tp_point, tp_ret, tp_done

mainVars == <<pc, buffer, streamLen, nRead, mapper, stabilizer, errorReported,
              released, frame_stabilized, center, center_warped, pts_original,
              pts_warped, lines_original, lines_warped, mask, shown, nStab,
              nWarp, nDetect, lastExit, history>>
detVars == <<det_cnts, det_mask, det_ret, det_done>>
tpVars == <<tp_point, tp_ret, tp_done>>
vars == <<mainVars, detVars, tpVars>>

\* ============================================================ detect_ball
\* A contour as measured by the code.  cv2.moments of a contour gives
\* m00 equal to cv2.contourArea of it, so m00 is the area field.
Contour(a, r, mx, my) == [area |-> a, radius |-> r, m10 |-> mx, m01 |-> my]

cPoint == Contour(0, 0, 0, 0)                 \* degenerate single point
cNoise == Contour(99, 6, 4950, 5940)          \* round, just under the floor
cMin   == Contour(100, 6, 4099, 30050)        \* round, exactly at the floor
cEdge  == Contour(219, 10, 21900, 43800)      \* circularity 0.697
cRound == Contour(220, 10, 66000, 22000)      \* circularity 0.7003
cBall  == Contour(1200, 20, 360000, 480000)   \* the ball, centre (300,400)
cTwin  == Contour(1200, 21, 262800, 124800)   \* same area, centre (219,104)
cLong  == Contour(3000, 60, 900000, 600000)   \* elongated, circularity 0.27
cBig   == Contour(7999, 52, 3999500, 3999500) \* round, just under the cap
cShirt == Contour(8000, 52, 2400000, 2000000) \* round, exactly at the cap

ContourUniverse ==
    {cPoint, cNoise, cMin, cEdge, cRound, cBall, cTwin, cLong, cBig, cShirt}

M00(c) == c.area

\* area / (math.pi * radius ** 2) > 0.7
PassesCircularity(area, radius) ==
    area * CircDen * PiDen > CircNum * PiNum * radius * radius

Selects_NoCap(area, max_area) == area > max_area

\* area > max_area and area < 8000
Selects(area, max_area) == area > max_area /\ area < MAX_AREA

\* The for loop over cnts from (Python) index i-1 on; best_c is the index of
\* the best contour so far, 0 for None.  The result is the final best_c.
RECURSIVE FilterContours(_, _, _, _)
FilterContours(cnts, i, best_c, max_area) ==
    IF i > Len(cnts) THEN best_c
    ELSE LET c == cnts[i]
             area == c.area
             radius == c.radius
         IN  IF area < MIN_AREA THEN FilterContours(cnts, i + 1, best_c, max_area)
             ELSE IF radius = 0 THEN FilterContours(cnts, i + 1, best_c, max_area)
             ELSE IF PassesCircularity(area, radius) /\ Selects(area, max_area)
                  THEN FilterContours(cnts, i + 1, i, area)
                  ELSE FilterContours(cnts, i + 1, best_c, max_area)

DetectBall_DocReturn(cnts, cleaned) ==
    LET best_c == FilterContours(cnts, 1, 0, 0)
    IN  IF best_c # 0 /\ M00(cnts[best_c]) # 0
        THEN [center |-> << cnts[best_c].m10 \div M00(cnts[best_c]),
                            cnts[best_c].m01 \div M00(cnts[best_c]) >>,
              radius |-> cnts[best_c].radius,
              mask   |-> cleaned]
        ELSE [center |-> None, radius |-> 0, mask |-> None]

\* detect_ball from step 5 on: (center, radius, mask).  The moments are
\* non-negative, so int() of the quotient is the floor.
DetectBall(cnts, cleaned) ==
    LET best_c == FilterContours(cnts, 1, 0, 0)
    IN  IF best_c # 0 /\ M00(cnts[best_c]) # 0
        THEN [center |-> << cnts[best_c].m10 \div M00(cnts[best_c]),
                            cnts[best_c].m01 \div M00(cnts[best_c]) >>,
              radius |-> cnts[best_c].radius,
              mask   |-> cleaned]
        ELSE [center |-> None, radius |-> 0, mask |-> cleaned]

\* ====================================================== PerspectiveMapper
pts_src == << <<220, 100>>, <<420, 100>>, <<500, 590>>, <<140, 590>> >>

pts_dst == << <<0, 0>>, <<WARPED_WIDTH - 1, 0>>,
              <<WARPED_WIDTH - 1, WARPED_HEIGHT - 1>>, <<0, WARPED_HEIGHT - 1>> >>

\* cv2.getPerspectiveTransform(pts_src, pts_dst), which normalises M[3][3]
\* to 1, with every entry multiplied by MScale to keep it integral.
MScale == 8200
M == << <<19551, 3192, -4620420>>,
        <<0, 32364, -3236400>>,
        <<0, 16, MScale>> >>

\* M applied to the homogeneous point (x, y, 1): <<x*w, y*w, w>>
Homogeneous(point) ==
    [k \in 1..3 |-> M[k][1] * point[1] + M[k][2] * point[2] + M[k][3]]

\* int(n / d) for d # 0: truncation toward zero
IntDiv(n, d) ==
    LET an == IF n < 0 THEN -n ELSE n
        ad == IF d < 0 THEN -d ELSE d
        q  == an \div ad
    IN  IF (n < 0) = (d < 0) THEN q ELSE -q

TransformPoint_NoneOffCanvas(point) ==
    IF point = None THEN None
    ELSE LET h == Homogeneous(point)
             x == IntDiv(h[1], h[3])
             y == IntDiv(h[2], h[3])
         IN  IF h[3] = 0 THEN <<0, 0>>
             ELSE IF x < 0 \/ x >= WARPED_WIDTH \/ y < 0 \/ y >= WARPED_HEIGHT
                  THEN None
                  ELSE <<x, y>>

TransformPoint_Clamped(point) ==
    IF point = None THEN None
    ELSE LET h == Homogeneous(point)
             cl(v, hi) == IF v < 0 THEN 0 ELSE IF v > hi THEN hi ELSE v
         IN  IF h[3] = 0 THEN <<0, 0>>
             ELSE << cl(IntDiv(h[1], h[3]), WARPED_WIDTH - 1),
                     cl(IntDiv(h[2], h[3]), WARPED_HEIGHT - 1) >>

\* transform_point; cv2.perspectiveTransform yields (0, 0) when w is 0
TransformPoint(point) ==
    IF point = None THEN None
    ELSE LET h == Homogeneous(point)
         IN  IF h[3] = 0 THEN <<0, 0>>
             ELSE << IntDiv(h[1], h[3]), IntDiv(h[2], h[3]) >>

\* ================================================================== main
\* deque(maxlen).appendleft(x): x is put in front, then the rightmost entry
\* is dropped if the length exceeds maxlen
AppendLeft_Unbounded(d, x, maxlen) == <<x>> \o d

AppendLeft_Right(d, x, maxlen) ==
    LET e == d \o <<x>>
    IN  IF Len(e) > maxlen THEN SubSeq(e, 2, Len(e)) ELSE e

AppendLeft(d, x, maxlen) ==
    LET e == <<x>> \o d
    IN  IF Len(e) > maxlen THEN SubSeq(e, 1, Len(e) - 1) ELSE e

\* int(np.sqrt(buffer_size / float(i + 1)) * 2.5), i the Python index:
\* the largest t with t^2 <= 6.25 * buffer_size / (i + 1)
Thickness(buffer_size, i) ==
    CHOOSE t \in 0..(3 * buffer_size + 3) :
        /\ t * t * 4 * (i + 1) <= 25 * buffer_size
        /\ (t + 1) * (t + 1) * 4 * (i + 1) > 25 * buffer_size

SkipsSegment_OnlyIfBoth(a, b) == a = None /\ b = None

\* pts[i - 1] is None or pts[i] is None
SkipsSegment(a, b) == a = None \/ b = None

\* draw_trajectory: the cv2.line calls made, in order.  Python index i
\* runs over 1..len(pts)-1; the deque's Python entry j is pts[j + 1] here.
RECURSIVE DrawFrom(_, _, _)
DrawFrom(pts, i, buffer_size) ==
    IF i > Len(pts) - 1 THEN <<>>
    ELSE IF SkipsSegment(pts[i], pts[i + 1])
         THEN DrawFrom(pts, i + 1, buffer_size)
         ELSE << [i |-> i, pt1 |-> pts[i], pt2 |-> pts[i + 1],
                  thickness |-> Thickness(buffer_size, i)] >>
              \o DrawFrom(pts, i + 1, buffer_size)

DrawTrajectory(pts, buffer_size) == DrawFrom(pts, 1, buffer_size)

\* The frames a video can hold, as detect_ball sees them
Frame(cs, m) == [cnts |-> cs, cleaned |-> <<m>>]
VideoFrames ==
    { Frame(<<>>, 0),                 \* nothing red
      Frame(<<cBall>>, 1),            \* the ball
      Frame(<<cShirt, cMin>>, 2) }    \* shirt and a small ball off the floor area

MainInit ==
    /\ pc = "start"
    /\ buffer \in -1..MaxBuffer
    /\ streamLen \in 0..MaxFrames
    /\ nRead = 0
    /\ mapper = FALSE
    /\ stabilizer = FALSE
    /\ errorReported = FALSE
    /\ released = FALSE
    /\ frame_stabilized = "unset"
    /\ center = None
    /\ center_warped = None
    /\ pts_original = <<>>
    /\ pts_warped = <<>>
    /\ lines_original = <<>>
    /\ lines_warped = <<>>
    /\ mask = None
    /\ shown = 0
    /\ nStab = 0
    /\ nWarp = 0
    /\ nDetect = 0
    /\ lastExit = "none"
    /\ history = <<>>

DetIdle ==
    /\ det_cnts = <<>>
    /\ det_mask = <<0>>
    /\ det_ret = [center |-> None, radius |-> 0, mask |-> None]
    /\ det_done = FALSE

TpIdle ==
    /\ tp_point = None
    /\ tp_ret = None
    /\ tp_done = FALSE

Startup_NoReturn ==
    /\ pc = "start"
    /\ \E isOpened \in BOOLEAN :
         /\ errorReported' = ~isOpened
         /\ mapper' = TRUE
         /\ stabilizer' = TRUE
         /\ pc' = IF buffer < 0 THEN "raised" ELSE "loop"
    /\ UNCHANGED <<buffer, streamLen, nRead, released, frame_stabilized,
                   center, center_warped, pts_original, pts_warped,
                   lines_original, lines_warped, mask, shown, nStab, nWarp,
                   nDetect, lastExit, history>>
    /\ UNCHANGED <<detVars, tpVars>>

\* Lines 36-52: open the video; on failure report and return, otherwise
\* build the mapper, the stabilizer and the two deques (a negative maxlen
\* makes deque raise ValueError).
Startup ==
    /\ pc = "start"
    /\ \E isOpened \in BOOLEAN :
         IF ~isOpened
         THEN /\ errorReported' = TRUE
              /\ pc' = "returned"
              /\ UNCHANGED <<mapper, stabilizer>>
         ELSE /\ mapper' = TRUE
              /\ stabilizer' = TRUE
              /\ pc' = IF buffer < 0 THEN "raised" ELSE "loop"
              /\ UNCHANGED errorReported
    /\ UNCHANGED <<buffer, streamLen, nRead, released, frame_stabilized,
                   center, center_warped, pts_original, pts_warped,
                   lines_original, lines_warped, mask, shown, nStab, nWarp,
                   nDetect, lastExit, history>>
    /\ UNCHANGED <<detVars, tpVars>>

\* Lines 56-58: vs.read() fails, break
ReadFails ==
    /\ pc = "loop"
    /\ nRead = streamLen
    /\ pc' = "cleanup"
    /\ lastExit' = "read"
    /\ UNCHANGED <<buffer, streamLen, nRead, mapper, stabilizer, errorReported,
                   released, frame_stabilized, center, center_warped,
                   pts_original, pts_warped, lines_original, lines_warped,
                   mask, shown, nStab, nWarp, nDetect, history>>
    /\ UNCHANGED <<detVars, tpVars>>

SkipFrame_Breaks ==
    /\ pc = "loop"
    /\ nRead < streamLen
    /\ nRead' = nRead + 1
    /\ nStab' = nStab + 1
    /\ frame_stabilized' = "None"
    /\ pc' = "cleanup"
    /\ UNCHANGED <<buffer, streamLen, mapper, stabilizer, errorReported,
                   released, center, center_warped, pts_original, pts_warped,
                   lines_original, lines_warped, mask, shown, nWarp, nDetect,
                   lastExit, history>>
    /\ UNCHANGED <<detVars, tpVars>>

SkipFrame_Pushes ==
    /\ pc = "loop"
    /\ nRead < streamLen
    /\ nRead' = nRead + 1
    /\ nStab' = nStab + 1
    /\ frame_stabilized' = "None"
    /\ pts_original' = AppendLeft(pts_original, None, buffer)
    /\ pts_warped' = AppendLeft(pts_warped, None, buffer)
    /\ pc' = "loop"
    /\ UNCHANGED <<buffer, streamLen, mapper, stabilizer, errorReported,
                   released, center, center_warped,
                   lines_original, lines_warped, mask, shown, nWarp, nDetect,
                   lastExit, history>>
    /\ UNCHANGED <<detVars, tpVars>>

\* Lines 56-74: a frame is read and resized, the stabilizer returns None,
\* continue
SkipFrame ==
    /\ pc = "loop"
    /\ nRead < streamLen
    /\ nRead' = nRead + 1
    /\ nStab' = nStab + 1
    /\ frame_stabilized' = "None"
    /\ pc' = "loop"
    /\ UNCHANGED <<buffer, streamLen, mapper, stabilizer, errorReported,
                   released, center, center_warped, pts_original, pts_warped,
                   lines_original, lines_warped, mask, shown, nWarp, nDetect,
                   lastExit, history>>
    /\ UNCHANGED <<detVars, tpVars>>

\* Lines 56-128 with a stabilized frame: warp, detect, transform, push on
\* both deques, draw both trails, show the three windows, poll the key.
ProcessFrame ==
    /\ pc = "loop"
    /\ nRead < streamLen
    /\ \E frame \in VideoFrames, key \in {"q", "other"} :
         LET det == DetectBall(frame.cnts, frame.cleaned)
             cw  == IF det.center # None THEN TransformPoint(det.center)
                                         ELSE None
             po  == AppendLeft(pts_original, det.center, buffer)
             pw  == AppendLeft(pts_warped, cw, buffer)
         IN  /\ nRead' = nRead + 1
             /\ nStab' = nStab + 1
             /\ frame_stabilized' = "frame"
             /\ nWarp' = nWarp + 1
             /\ nDetect' = nDetect + 1
             /\ center' = det.center
             /\ center_warped' = cw
             /\ pts_original' = po
             /\ pts_warped' = pw
             /\ history' = << <<det.center, cw>> >> \o history
             /\ lines_original' = DrawTrajectory(po, buffer)
             /\ lines_warped' = DrawTrajectory(pw, buffer)
             /\ mask' = det.mask
             /\ shown' = shown + 1
             /\ IF key = "q"
                THEN pc' = "cleanup" /\ lastExit' = "quit"
                ELSE pc' = "loop" /\ UNCHANGED lastExit
    /\ UNCHANGED <<buffer, streamLen, mapper, stabilizer, errorReported,
                   released>>
    /\ UNCHANGED <<detVars, tpVars>>

\* Lines 130-132: vs.release(), cv2.destroyAllWindows()
Cleanup ==
    /\ pc = "cleanup"
    /\ released' = TRUE
    /\ pc' = "done"
    /\ UNCHANGED <<buffer, streamLen, nRead, mapper, stabilizer, errorReported,
                   frame_stabilized, center, center_warped, pts_original,
                   pts_warped, lines_original, lines_warped, mask, shown,
                   nStab, nWarp, nDetect, lastExit, history>>
    /\ UNCHANGED <<detVars, tpVars>>

Init == MainInit /\ DetIdle /\ TpIdle
Next == Startup \/ ReadFails \/ SkipFrame \/ ProcessFrame \/ Cleanup
Spec == Init /\ [][Next]_vars

\* main is a single sequential thread: a step that can be taken is taken
FairSpec == Spec /\ WF_vars(Next)

\* ------------------------------------------- one call of detect_ball
RECURSIVE SeqsUpTo(_, _)
SeqsUpTo(S, n) ==
    IF n = 0 THEN {<<>>}
    ELSE LET shorter == SeqsUpTo(S, n - 1)
         IN  shorter \cup {Append(s, x) : s \in shorter, x \in S}

MainIdle ==
    /\ MainInit
    /\ buffer = 0
    /\ streamLen = 0

InitDetect ==
    /\ MainIdle
    /\ TpIdle
    /\ det_cnts \in SeqsUpTo(ContourUniverse, MaxContours)
    /\ det_mask \in {<<0>>, <<1>>}
    /\ det_ret = [center |-> None, radius |-> 0, mask |-> None]
    /\ det_done = FALSE

CallDetectBall ==
    /\ ~det_done
    /\ det_ret' = DetectBall(det_cnts, det_mask)
    /\ det_done' = TRUE
    /\ UNCHANGED <<det_cnts, det_mask, mainVars, tpVars>>

SpecDetect == InitDetect /\ [][CallDetectBall]_vars

\* ---------------------------------------- one call of transform_point
FramePoints == {<<x, y>> : x \in 0..(FRAME_WIDTH - 1), y \in 0..(MaxHeight - 1)}

InitMapper ==
    /\ MainIdle
    /\ DetIdle
    /\ tp_point \in FramePoints \cup {None}
    /\ tp_ret = None
    /\ tp_done = FALSE

CallTransformPoint ==
    /\ ~tp_done
    /\ tp_ret' = TransformPoint(tp_point)
    /\ tp_done' = TRUE
    /\ UNCHANGED <<tp_point, mainVars, detVars>>

SpecMapper == InitMapper /\ [][CallTransformPoint]_vars

\* ================================================================ claims
DequesExist == pc \in {"loop", "cleanup", "done"}
Front(q) == SubSeq(q, 1, Len(q) - 1)
Min(a, b) == IF a < b THEN a ELSE b
ProcessedStep == nDetect' = nDetect + 1

LengthsBounded ==
    DequesExist => Len(pts_original) <= buffer /\ Len(pts_warped) <= buffer

\* C1 as stated: neither trajectory buffer ever holds more than `buffer`
\* entries, and every push onto a full buffer puts the new entry in front
\* and drops exactly the oldest one.
C1_EvictsOldestOnFull ==
    /\ []LengthsBounded
    /\ [][(ProcessedStep /\ Len(pts_original) = buffer /\ Len(pts_warped) = buffer)
            => /\ pts_original' = <<center'>> \o Front(pts_original)
               /\ pts_warped' = <<center_warped'>> \o Front(pts_warped)]_vars

\* C1 amended: neither trajectory buffer ever holds more than `buffer`
\* entries; a push onto a full buffer of capacity at least 1 puts the new
\* entry in front and drops exactly the oldest one, and with capacity 0 the
\* pushed entry itself is dropped and the buffer stays empty.
C1_BoundedEviction ==
    /\ []LengthsBounded
    /\ [][(ProcessedStep /\ Len(pts_original) = buffer /\ Len(pts_warped) = buffer)
            => IF buffer >= 1
               THEN /\ pts_original' = <<center'>> \o Front(pts_original)
                    /\ pts_warped' = <<center_warped'>> \o Front(pts_warped)
               ELSE pts_original' = <<>> /\ pts_warped' = <<>>]_vars

\* an eviction has happened on a buffer of capacity at least 2
C1_Witness ==
    /\ buffer >= 2
    /\ nDetect > buffer
    /\ Len(pts_original) = buffer
    /\ Len(pts_warped) = buffer

\* C2: after more processed frames than the capacity, each buffer is
\* exactly the entries of the `buffer` most recent processed frames, most
\* recent first, entry 0 being the current frame's.
C2_MostRecentFirst ==
    (DequesExist /\ nDetect > buffer) =>
        /\ Len(history) = nDetect
        /\ Len(pts_original) = buffer
        /\ Len(pts_warped) = buffer
        /\ \A k \in 1..buffer :
             /\ pts_original[k] = history[k][1]
             /\ pts_warped[k] = history[k][2]
        /\ buffer >= 1 => pts_original[1] = center /\ pts_warped[1] = center_warped

\* more frames than capacity, and the retained entries differ from the
\* evicted one and from each other
C2_Witness ==
    /\ buffer = 2
    /\ nDetect = 3
    /\ pts_original = <<None, <<300, 400>> >>
    /\ history[3][1] = <<40, 300>>

\* C3: a frame on which the stabilizer returns None changes neither
\* trajectory buffer, runs no warp or detection, draws and shows nothing,
\* and leaves the loop at the next read.
C3_SkipLeavesNoTrace ==
    [][(pc = "loop" /\ nStab' = nStab + 1 /\ frame_stabilized' = "None")
         => /\ pc' = "loop"
            /\ nRead' = nRead + 1
            /\ UNCHANGED <<pts_original, pts_warped, history, nWarp, nDetect,
                           center, center_warped, lines_original, lines_warped,
                           mask, shown>>]_vars

\* a skipped frame after processed ones: the trail is still there
C3_Witness ==
    /\ pc = "loop"
    /\ frame_stabilized = "None"
    /\ nStab > nDetect
    /\ nDetect >= 1
    /\ shown = nDetect
    /\ Len(pts_original) >= 1
    /\ pts_original[1] # None

Qualifies(c) ==
    /\ c.area >= 100
    /\ c.radius # 0
    /\ c.area * 10 * PiDen > 7 * PiNum * c.radius * c.radius
    /\ c.area < 8000

Centroid(c) == << c.m10 \div c.area, c.m01 \div c.area >>

\* C4: detect_ball reports a centre exactly when some contour has
\* area >= 100, a non-zero radius, circularity > 0.7 and area < 8000, and
\* what it reports is the centroid and radius of a qualifying contour of
\* maximum area.
C4_SelectsLargestQualifying ==
    det_done =>
        LET Q == {i \in 1..Len(det_cnts) : Qualifies(det_cnts[i])}
        IN  /\ (det_ret.center # None) <=> (Q # {})
            /\ det_ret.center # None =>
                 \E i \in Q :
                    /\ \A j \in Q : det_cnts[j].area <= det_cnts[i].area
                    /\ det_ret.center = Centroid(det_cnts[i])
                    /\ det_ret.radius = det_cnts[i].radius

\* an oversized round region and an elongated one come first, the small
\* ball after them is still the one reported
C4_Witness ==
    /\ det_done
    /\ det_cnts = <<cShirt, cLong, cMin>>
    /\ det_ret.center = <<40, 300>>
    /\ det_ret.radius = 6

DrawnExactly(lines, pts) ==
    /\ \A i \in 1..(Len(pts) - 1) :
         (\E k \in 1..Len(lines) : lines[k].i = i)
            <=> (pts[i] # None /\ pts[i + 1] # None)
    /\ \A k \in 1..Len(lines) :
         /\ lines[k].i \in 1..(Len(pts) - 1)
         /\ lines[k].pt1 = pts[lines[k].i]
         /\ lines[k].pt2 = pts[lines[k].i + 1]
         /\ lines[k].pt1 # None
         /\ lines[k].pt2 # None

\* C6: on both views a segment is drawn between neighbouring buffer entries
\* exactly when both are present, and every drawn segment joins two
\* neighbouring present entries.
C6_SegmentsIffBothPresent ==
    /\ DrawnExactly(lines_original, pts_original)
    /\ DrawnExactly(lines_warped, pts_warped)

\* a gap between two detections: nothing is drawn across it
C6_Witness ==
    /\ Len(pts_original) = 3
    /\ pts_original[1] # None
    /\ pts_original[2] = None
    /\ pts_original[3] # None
    /\ lines_original = <<>>
    /\ lines_warped = <<>>

\* C7: when the video cannot be opened the error is reported and main
\* returns: nothing is read, no mapper, stabilizer or buffer is used,
\* nothing is shown, and no further step is taken.
C7_OpenFailureExits ==
    /\ [](errorReported =>
            /\ pc = "returned"
            /\ nRead = 0 /\ nStab = 0 /\ nWarp = 0 /\ nDetect = 0 /\ shown = 0
            /\ ~mapper /\ ~stabilizer
            /\ pts_original = <<>> /\ pts_warped = <<>>)
    /\ [](pc = "returned" => errorReported)
    /\ [][pc # "returned"]_vars

\* the open failed on a video that had frames
C7_Witness ==
    /\ pc = "returned"
    /\ errorReported
    /\ streamLen > 0

\* C8: the loop is left only by a failed read or by the quit key pressed
\* after a shown frame; leaving it is followed by the release of the video;
\* the loop is always left eventually.
C8_LoopExits ==
    /\ [][(pc = "loop" /\ pc' # "loop")
            => /\ pc' = "cleanup"
               /\ \/ nRead = streamLen /\ nRead' = nRead /\ lastExit' = "read"
                  \/ shown' = shown + 1 /\ lastExit' = "quit"]_vars
    /\ [][pc = "cleanup" => pc' = "done" /\ released']_vars
    /\ [](pc = "done" => released)
    /\ (pc = "loop" ~> (pc = "done" /\ released))

\* the stream ended with the stabilizer never ready
C8_Witness ==
    /\ pc = "done"
    /\ released
    /\ lastExit = "read"
    /\ streamLen >= 2
    /\ nStab = streamLen
    /\ nDetect = 0

Cross(a, b, p) == (b[1] - a[1]) * (p[2] - a[2]) - (b[2] - a[2]) * (p[1] - a[1])

\* inside or on the boundary of the quadrilateral pts_src
InsideQuad(p) ==
    \A k \in 1..4 : Cross(pts_src[k], pts_src[(k % 4) + 1], p) >= 0

InRect(q) ==
    /\ 0 <= q[1] /\ q[1] <= WARPED_WIDTH - 1
    /\ 0 <= q[2] /\ q[2] <= WARPED_HEIGHT - 1

InInterior(q) ==
    /\ 1 <= q[1] /\ q[1] <= WARPED_WIDTH - 2
    /\ 1 <= q[2] /\ q[2] <= WARPED_HEIGHT - 2

CornersMap ==
    \A k \in 1..4 : tp_point = pts_src[k] => tp_ret = pts_dst[k]

\* the exact image M.p of p lies outside the closed destination rectangle
ExactOutside(p) ==
    LET h == Homogeneous(p)
        s == IF h[3] < 0 THEN -1 ELSE 1
    IN  \/ s * h[1] < 0
        \/ s * h[1] > (WARPED_WIDTH - 1) * s * h[3]
        \/ s * h[2] < 0
        \/ s * h[2] > (WARPED_HEIGHT - 1) * s * h[3]

\* q is less than one pixel from the exact image of p in each coordinate
WithinOnePixel(p, q) ==
    LET h == Homogeneous(p)
        s == IF h[3] < 0 THEN -1 ELSE 1
    IN  \A k \in 1..2 :
          /\ q[k] * s * h[3] - s * h[k] < s * h[3]
          /\ s * h[k] - q[k] * s * h[3] < s * h[3]

\* C9 as stated: every integer point outside the source quadrilateral is
\* returned outside the destination rectangle [0,399]x[0,899], and each
\* source corner is returned as its destination corner.
C9_OutsideMapsOutside ==
    (tp_done /\ tp_point # None) =>
        /\ CornersMap
        /\ ~InsideQuad(tp_point) => ~InRect(tp_ret)

\* C9 amended: for every integer point outside the source quadrilateral the
\* exact projective image lies outside the destination rectangle and the
\* returned coordinate is less than one pixel from it (no clamping), so it
\* is never in the interior [1,398]x[1,898], though truncation can put it
\* on the border; each source corner is returned as its destination corner.
C9_OutsideMapsOffInterior ==
    (tp_done /\ tp_point # None) =>
        /\ CornersMap
        /\ ~InsideQuad(tp_point) =>
             /\ ExactOutside(tp_point)
             /\ WithinOnePixel(tp_point, tp_ret)
             /\ ~InInterior(tp_ret)

\* a point just left of the quadrilateral lands on the left border
C9_Witness ==
    /\ tp_done
    /\ tp_point = <<219, 104>>
    /\ ~InsideQuad(tp_point)
    /\ tp_ret = <<0, 13>>

\* C10: the two buffers have the same length, one entry per processed
\* frame up to the capacity, and the same entries are absent in both; the
\* transformed centre is absent exactly when the detected centre is.
C10_BuffersAligned ==
    /\ Len(pts_original) = Len(pts_warped)
    /\ \A i \in 1..Len(pts_original) :
         (pts_original[i] = None) <=> (pts_warped[i] = None)
    /\ Len(history) = nDetect
    /\ DequesExist => Len(pts_original) = Min(nDetect, buffer)
    /\ (center = None) <=> (center_warped = None)

\* a skipped frame, a frame without detection and a detection that maps
\* off the canvas have all been seen
C10_Witness ==
    /\ nStab > nDetect
    /\ Len(pts_original) = 2
    /\ pts_original[1] = <<40, 300>>
    /\ ~InRect(pts_warped[1])
    /\ pts_original[2] = None
    /\ pts_warped[2] = None

====
